---- MODULE Spec2Model ----
(***************************************************************************)
(* cfupdater: a dynamic-DNS updater.  run(mode, num_runs) fetches three    *)
(* secrets, runs the update workflow main() once, and, when a repeat mode  *)
(* is given, re-runs it from a sched.scheduler queue.  main() opens a      *)
(* CloudflareDNS session, discovers the public IP, looks the record up,    *)
(* creates or updates it and, when that succeeded, resolves the name.      *)
(*                                                                         *)
(* Python values are modelled as strings; None is the string "None".       *)
(* The HTTP endpoints, the credential vault and the resolver are the       *)
(* environment: every response they can give is drawn with \E.             *)
(***************************************************************************)
EXTENDS Integers, Sequences, FiniteSets, TLC

VARIABLES
    mode,         \* run's argument mode (None when --mode is omitted)
    num_runs,     \* run's argument num_runs
    pc,           \* position of the single thread of control
    caller,       \* which call of main is active: "first" (l.83) or "resched" (l.98)
    creds,        \* (CF_API_KEY, CF_ZONE_ID, CF_DNS_RECORD) once resolved
    session,      \* CloudflareDNS.session: "open" or None
    ip_address,   \* main's local ip_address
    record_id,    \* main's local record_id
    success,      \* main's local success
    verified,     \* what verify_dns_update returned (main discards it)
    ret,          \* what the last completed call of main returned
    raised,       \* the exception that left run, "" when none
    reqs,         \* external calls issued by the current cycle, in order
    invocations,  \* number of calls of main so far
    runs_left,    \* run's local runs_left
    queue,        \* the scheduler's event queue: the times of its events
    now,          \* time.time(), in seconds since run started
    sleeps,       \* arguments of the scheduler's delayfunc calls, in order
    rlHist,       \* runs_left as seen by each call of schedule_next
    vaultIn,      \* history: what the environment and the vault gave get_secrets
    discovery,    \* history: class of this cycle's discovery response, or None
    lookup,       \* history: class of this cycle's lookup response, or None
    matching,     \* history: ids of the A records of the configured name in
                  \* this cycle's lookup result, in provider order
    upToDate,     \* history: whether that record's content is already ip_address
    lastEnd       \* history: time.time() when the last call of main returned

vars == <<mode, num_runs, pc, caller, creds, session, ip_address, record_id,
          success, verified, ret, raised, reqs, invocations, runs_left,
          queue, now, sleeps, rlHist, vaultIn, discovery, lookup, matching,
          upToDate, lastEnd>>

----------------------------------------------------------------------------
(* Bounds of the model *)

\* largest run count tried; run counts range over -2..MaxRuns
MaxRuns == 3

\* longest record list a lookup response carries
MaxRecords == 2

\* cycles after which an unbounded run (num_runs = 0) is no longer followed
CycleCap == MaxRuns + 1

----------------------------------------------------------------------------
(* Python values *)

None == "None"
PyTrue == "True"
PyFalse == "False"

\* Python truthiness of the values the model uses: None, "" and False are falsy
Truthy(v) == v \notin {None, "", PyFalse}

PyBool(b) == IF b THEN PyTrue ELSE PyFalse

\* all(list): every element truthy
PyAll(s) == \A i \in 1..Len(s) : Truthy(s[i])

----------------------------------------------------------------------------
(* Inputs *)

\* "minutely" is the spec's name of the per-minute mode; argparse offers "min"
Modes == {None, "daily", "hourly", "min", "minutely"}

RunCounts == -2..MaxRuns

IPs == {"203.0.113.7", "198.51.100.9"}

\* hostnames the vault may hold; the second has an empty label
GoodName == "host.example.com"
BadLabelName == "host..example.com"
OtherName == "other.example.com"

RecordIds == {"X", "Y"}

----------------------------------------------------------------------------
(* get_secrets and run's validation of its result *)

CF_API_KEY_REF == "op://Services/CF DNS API/credential"
CF_HOST_REF == "op://Services/CF DNS API/hostname"
CF_ZONE_ID_REF == "op://Services/CF DNS API/zone_id"

Raises == "<raises>"

\* what os.getenv("OP_SERVICE_ACCOUNT_TOKEN") may give
EnvTokens == {None, "", "ops_token"}

\* what client.secrets.resolve may do for each reference: raise, or return a value
VaultAnswers ==
    [ {CF_API_KEY_REF, CF_ZONE_ID_REF, CF_HOST_REF} -> {Raises, "", "v"} ]

\* the value a reference resolves to when the vault answers "v"
VaultValue(ref, hostname) ==
    IF ref = CF_API_KEY_REF THEN "cf-api-token"
    ELSE IF ref = CF_ZONE_ID_REF THEN "zone-1"
    ELSE hostname

Resolve(vault, ref, hostname) ==
    IF vault[ref] = "v" THEN VaultValue(ref, hostname) ELSE vault[ref]

\* get_secrets: [exc, val]; exc when it raises, else val is the tuple
\* (CF_API_KEY, CF_ZONE_ID, CF_DNS_RECORD)
get_secrets(token, authOK, vault, hostname) ==
    IF ~Truthy(token) THEN [exc |-> TRUE, val |-> <<>>]
    ELSE IF ~authOK THEN [exc |-> TRUE, val |-> <<>>]
    ELSE IF Resolve(vault, CF_API_KEY_REF, hostname) = Raises
         THEN [exc |-> TRUE, val |-> <<>>]
    ELSE IF Resolve(vault, CF_ZONE_ID_REF, hostname) = Raises
         THEN [exc |-> TRUE, val |-> <<>>]
    ELSE IF Resolve(vault, CF_HOST_REF, hostname) = Raises
         THEN [exc |-> TRUE, val |-> <<>>]
    ELSE [exc |-> FALSE,
          val |-> << Resolve(vault, CF_API_KEY_REF, hostname),
                     Resolve(vault, CF_ZONE_ID_REF, hostname),
                     Resolve(vault, CF_HOST_REF, hostname) >>]

\* the validation of line 79 left out
SecretsAccepted_Unvalidated(s) == ~s.exc

\* run, lines 73-81: TRUE when run goes on to call main with the secrets
SecretsAccepted(s) == ~s.exc /\ PyAll(s.val)

----------------------------------------------------------------------------
(* CloudflareDNS: the four client calls as functions of the response *)

CF_URL == <<"https://speed.cloudflare.com", "meta">>

\* responses of GET CF_URL
IpResponses ==
    { [exc |-> TRUE, status |-> 0, json_ok |-> FALSE, clientIp |-> None] }
    \cup [ exc : {FALSE}, status : {200, 500}, json_ok : BOOLEAN,
           clientIp : {None, ""} \cup IPs ]

get_my_ip(resp) ==
    IF resp.exc THEN None
    ELSE IF resp.status = 200
         THEN IF resp.json_ok THEN resp.clientIp ELSE None
         ELSE None

\* records a lookup response may list
Records(record_name) ==
    [ type : {"A", "AAAA"}, name : {record_name, OtherName}, id : RecordIds,
      content : IPs ]

RecordLists(record_name) ==
    UNION { [1..n -> Records(record_name)] : n \in 0..MaxRecords }

\* responses of GET .../zones/{zone_id}/dns_records?name=...; the record list
\* is read on status 200 with success only, so only those carry one
LookupResponses(record_name) ==
    { [exc |-> TRUE, status |-> 0, json_ok |-> FALSE, success |-> FALSE,
       result |-> <<>>] }
    \cup [ exc : {FALSE}, status : {200, 500}, json_ok : {FALSE},
           success : {FALSE}, result : {<<>>} ]
    \cup [ exc : {FALSE}, status : {200, 500}, json_ok : {TRUE},
           success : {FALSE}, result : {<<>>} ]
    \cup [ exc : {FALSE}, status : {500}, json_ok : {TRUE},
           success : {TRUE}, result : {<<>>} ]
    \cup [ exc : {FALSE}, status : {200}, json_ok : {TRUE},
           success : {TRUE}, result : RecordLists(record_name) ]

\* the test of line 78 without its type part
Matches_NameOnly(record, record_name) == record.name = record_name

Matches(record, record_name) ==
    record.type = "A" /\ record.name = record_name

RECURSIVE FirstMatch(_, _, _)
\* the for loop of lines 77-81, from index i on
FirstMatch(records, record_name, i) ==
    IF i > Len(records) THEN None
    ELSE IF Matches(records[i], record_name) THEN records[i].id
    ELSE FirstMatch(records, record_name, i + 1)

find_dns_record_id(resp, record_name) ==
    IF resp.exc THEN None
    ELSE IF ~resp.json_ok THEN None
    ELSE IF resp.status = 200 /\ resp.success
         THEN IF resp.result = <<>> THEN None
              ELSE FirstMatch(resp.result, record_name, 1)
         ELSE None

\* the payload with the record proxied
UpsertData_Proxied(record_name, ip) ==
    [type |-> "A", name |-> record_name, content |-> ip, ttl |-> 1,
     proxied |-> TRUE]

\* the request update_dns_record sends
UpsertData(record_name, ip) ==
    [type |-> "A", name |-> record_name, content |-> ip, ttl |-> 1,
     proxied |-> FALSE]

\* update_dns_record ignoring its record_id argument
UpsertRequest_AlwaysCreate(zone_id, record_name, ip, rid) ==
    [method |-> "POST",
     url |-> <<"https://api.cloudflare.com/client/v4", "zones", zone_id,
               "dns_records">>,
     data |-> UpsertData(record_name, ip)]

\* update_dns_record only reading a record that already holds the IP
UpsertRequest_SkipsCurrent(zone_id, record_name, ip, rid) ==
    IF Truthy(rid) /\ upToDate = PyTrue
    THEN [method |-> "GET",
          url |-> <<"https://api.cloudflare.com/client/v4", "zones", zone_id,
                    "dns_records", rid>>,
          data |-> UpsertData(record_name, ip)]
    ELSE IF Truthy(rid)
    THEN [method |-> "PUT",
          url |-> <<"https://api.cloudflare.com/client/v4", "zones", zone_id,
                    "dns_records", rid>>,
          data |-> UpsertData(record_name, ip)]
    ELSE [method |-> "POST",
          url |-> <<"https://api.cloudflare.com/client/v4", "zones", zone_id,
                    "dns_records">>,
          data |-> UpsertData(record_name, ip)]

UpsertRequest(zone_id, record_name, ip, rid) ==
    IF Truthy(rid)
    THEN [method |-> "PUT",
          url |-> <<"https://api.cloudflare.com/client/v4", "zones", zone_id,
                    "dns_records", rid>>,
          data |-> UpsertData(record_name, ip)]
    ELSE [method |-> "POST",
          url |-> <<"https://api.cloudflare.com/client/v4", "zones", zone_id,
                    "dns_records">>,
          data |-> UpsertData(record_name, ip)]

\* responses of the PUT or POST
UpsertResponses ==
    { [exc |-> TRUE, status |-> 0, json_ok |-> FALSE, success |-> FALSE] }
    \cup [ exc : {FALSE}, status : {200, 500}, json_ok : {FALSE},
           success : {FALSE} ]
    \cup [ exc : {FALSE}, status : {200, 500}, json_ok : {TRUE},
           success : BOOLEAN ]

update_dns_record(resp) ==
    IF resp.exc THEN PyFalse
    ELSE IF ~resp.json_ok THEN PyFalse
    ELSE PyBool(resp.status = 200 /\ resp.success)

\* the idna codec socket.gethostbyname encodes its argument with rejects a
\* name with an empty (or over-long) label
IdnaEncodable(name) == name # BadLabelName

\* what the resolver may answer for a name it is asked about
DnsAnswers == {"gaierror"} \cup IPs

\* socket.gethostbyname: [exc, value]
gethostbyname(name, answer) ==
    IF ~IdnaEncodable(name) THEN [exc |-> "UnicodeError", value |-> None]
    ELSE IF answer = "gaierror" THEN [exc |-> "gaierror", value |-> None]
    ELSE [exc |-> "", value |-> answer]

\* verify_dns_update: [exc, value]; exc is the exception that leaves it
verify_dns_update(expected_ip, record_name, answer) ==
    LET r == gethostbyname(record_name, answer) IN
    IF r.exc = "gaierror" THEN [exc |-> "", value |-> PyFalse]
    ELSE IF r.exc # "" THEN [exc |-> r.exc, value |-> None]
    ELSE [exc |-> "", value |-> PyBool(r.value = expected_ip)]

----------------------------------------------------------------------------
(* The scheduler's pure parts *)

\* the table with the hourly and per-minute entries swapped
get_interval_seconds_Swapped(m) ==
    IF m = "daily" THEN 24 * 60 * 60
    ELSE IF m = "hourly" THEN 60
    ELSE IF m = "min" THEN 60 * 60
    ELSE 0

get_interval_seconds(m) ==
    IF m = "daily" THEN 24 * 60 * 60
    ELSE IF m = "hourly" THEN 60 * 60
    ELSE IF m = "min" THEN 60
    ELSE 0

\* schedule_next entering the event twice
schedule_next_Twice(q, rl) ==
    IF num_runs # 0 /\ rl <= 0 THEN q
    ELSE Append(Append(q, now + get_interval_seconds(mode)),
                now + get_interval_seconds(mode))

\* "runs_left < 0" in place of "runs_left <= 0"
schedule_next_OffByOne(q, rl) ==
    IF num_runs # 0 /\ rl < 0 THEN q
    ELSE Append(q, now + get_interval_seconds(mode))

\* schedule_next measuring the interval from before the verification wait
schedule_next_Compensating(q, rl) ==
    IF num_runs # 0 /\ rl <= 0 THEN q
    ELSE IF verified \in {PyTrue, PyFalse}
         THEN Append(q, now - 5 + get_interval_seconds(mode))
         ELSE Append(q, now + get_interval_seconds(mode))

\* "num_runs <= 0" read as unbounded in place of "num_runs == 0"
schedule_next_NegativeUnbounded(q, rl) ==
    IF num_runs > 0 /\ rl <= 0 THEN q
    ELSE Append(q, now + get_interval_seconds(mode))

\* schedule_next, lines 90-94: the queue after it, given runs_left = rl
schedule_next(q, rl) ==
    IF num_runs # 0 /\ rl <= 0 THEN q
    ELSE Append(q, now + get_interval_seconds(mode))

\* run_and_reschedule, line 99: whether it decrements and reschedules
Reschedules(rl) == num_runs = 0 \/ rl > 0

----------------------------------------------------------------------------
(* main, lines 38-63 *)

\* CloudflareDNS.__enter__: the session after it
session_enter == "open"

\* the session kept open by __exit__
session_exit_Leak(s) == s

\* CloudflareDNS.__exit__: the session after it, given the session before
session_exit(s) == IF Truthy(s) THEN None ELSE s

\* the verification done whatever the upsert returned
Verifies_Always(ok) == TRUE

\* line 61: if success
Verifies(ok) == Truthy(ok)

\* "if ip_address is None" in place of "if not ip_address"
NoIp_IsNone(ip) == ip = None

\* line 44: if not ip_address
NoIp(ip) == ~Truthy(ip)

\* main returning whether discovery and the upsert succeeded
MainReturn_Outcome(ip, ok) == PyBool(Truthy(ip) /\ ok = PyTrue)

\* what main returns: it has no return value on any path
MainReturn(ip, ok) == None

\* where control goes when main returns to its caller
AfterMain == IF caller = "first" THEN "after_first" ELSE "after_resched"

\* how a discovery response is classed by the DNS client's contract: Failed on
\* a transport error, a status other than 200, an unparsable body, or a body
\* whose clientIp is absent or empty
DiscoveryClass(resp) ==
    IF resp.exc \/ resp.status # 200 \/ ~resp.json_ok
       \/ resp.clientIp \in {None, ""}
    THEN "Failed"
    ELSE "Ok"

\* the records of a successful lookup response that are A records of the
\* configured name, by position
MatchingAt(resp, record_name) ==
    IF resp.exc \/ ~resp.json_ok \/ resp.status # 200 \/ ~resp.success
    THEN {}
    ELSE { i \in 1..Len(resp.result) :
             resp.result[i].type = "A" /\ resp.result[i].name = record_name }

\* how a lookup response is classed by the DNS client's contract
LookupClass(resp, record_name) ==
    IF resp.exc \/ ~resp.json_ok \/ resp.status # 200 \/ ~resp.success
    THEN "Failure"
    ELSE IF MatchingAt(resp, record_name) # {} THEN "Found" ELSE "NotFound"

\* the least position of a non-empty set of positions
Least(S) == CHOOSE i \in S : \A j \in S : i <= j

RECURSIVE IdsAt(_, _)
\* the ids of the records at the positions S of a list, in the list's order
IdsAt(records, S) ==
    IF S = {} THEN <<>>
    ELSE <<records[Least(S)].id>> \o IdsAt(records, S \ {Least(S)})

\* the ids of those records, in provider order
MatchingIds(resp, record_name) ==
    IdsAt(resp.result, MatchingAt(resp, record_name))

\* whether the provider's record already holds the discovered IP
AlreadyCurrent(resp, record_name, ip) ==
    IF MatchingAt(resp, record_name) = {} THEN PyFalse
    ELSE PyBool(resp.result[Least(MatchingAt(resp, record_name))].content = ip)

hostnames == {GoodName, BadLabelName}

\* vaultIn before get_secrets has run
NoVaultIn ==
    [token |-> None, authOK |-> FALSE,
     vault |-> [ref \in {CF_API_KEY_REF, CF_ZONE_ID_REF, CF_HOST_REF} |-> Raises]]

Init ==
    /\ mode \in Modes
    /\ num_runs \in RunCounts
    /\ pc = "start"
    /\ caller = "first"
    /\ creds = <<>>
    /\ session = None
    /\ ip_address = None
    /\ record_id = None
    /\ success = None
    /\ verified = None
    /\ ret = None
    /\ raised = ""
    /\ reqs = <<>>
    /\ invocations = 0
    /\ runs_left = 0
    /\ queue = <<>>
    /\ now = 0
    /\ sleeps = <<>>
    /\ rlHist = <<>>
    /\ vaultIn = NoVaultIn
    /\ discovery = None
    /\ lookup = None
    /\ matching = <<>>
    /\ upToDate = None
    /\ lastEnd = 0

\* run, lines 73-83: fetch and validate the secrets, then call main
RunStart ==
    /\ pc = "start"
    /\ \E token \in EnvTokens, authOK \in BOOLEAN, vault \in VaultAnswers,
          hostname \in hostnames :
         LET s == get_secrets(token, authOK, vault, hostname) IN
         /\ vaultIn' = [token |-> token, authOK |-> authOK, vault |-> vault]
         /\ IF SecretsAccepted(s)
            THEN /\ creds' = s.val
                 /\ pc' = "main"
            ELSE /\ creds' = creds
                 /\ pc' = "done"
    /\ caller' = "first"
    /\ UNCHANGED <<mode, num_runs, session, ip_address, record_id, success,
                   verified, ret, raised, reqs, invocations, runs_left, queue,
                   now, sleeps, rlHist, discovery, lookup, matching, upToDate,
                   lastEnd>>

\* main, lines 38-41: a new call of main enters the with block
MainEnter ==
    /\ pc = "main"
    /\ invocations' = invocations + 1
    /\ session' = session_enter
    /\ ip_address' = None
    /\ record_id' = None
    /\ success' = None
    /\ verified' = None
    /\ reqs' = <<>>
    /\ discovery' = None
    /\ lookup' = None
    /\ matching' = <<>>
    /\ upToDate' = None
    /\ pc' = "get_ip"
    /\ UNCHANGED <<mode, num_runs, caller, creds, ret, raised, runs_left,
                   queue, now, sleeps, rlHist, vaultIn, lastEnd>>

\* main, lines 42-48: discover the IP; return when there is none
GetMyIp ==
    /\ pc = "get_ip"
    /\ \E resp \in IpResponses :
         LET ip == get_my_ip(resp) IN
         /\ ip_address' = ip
         /\ discovery' = DiscoveryClass(resp)
         /\ reqs' = Append(reqs, [method |-> "GET", url |-> CF_URL])
         /\ IF NoIp(ip)
            THEN /\ session' = session_exit(session)
                 /\ ret' = MainReturn(ip, success)
                 /\ lastEnd' = now
                 /\ pc' = AfterMain
            ELSE /\ session' = session
                 /\ ret' = ret
                 /\ lastEnd' = lastEnd
                 /\ pc' = "find"
    /\ UNCHANGED <<mode, num_runs, caller, creds, record_id, success, verified,
                   raised, invocations, runs_left, queue, now, sleeps, rlHist,
                   vaultIn, lookup, matching, upToDate>>

\* main, lines 50-51: look the record up
FindRecord ==
    /\ pc = "find"
    /\ \E resp \in LookupResponses(creds[3]) :
         /\ record_id' = find_dns_record_id(resp, creds[3])
         /\ lookup' = LookupClass(resp, creds[3])
         /\ matching' = MatchingIds(resp, creds[3])
         /\ upToDate' = AlreadyCurrent(resp, creds[3], ip_address)
    /\ reqs' = Append(reqs,
                 [method |-> "GET",
                  url |-> <<"https://api.cloudflare.com/client/v4", "zones",
                            creds[2], "dns_records">>])
    /\ pc' = "update"
    /\ UNCHANGED <<mode, num_runs, caller, creds, session, ip_address, success,
                   verified, ret, raised, invocations, runs_left, queue, now,
                   sleeps, rlHist, vaultIn, discovery, lastEnd>>

\* main, lines 53-61: create or update the record; return when that failed
Upsert ==
    /\ pc = "update"
    /\ reqs' = Append(reqs, UpsertRequest(creds[2], creds[3], ip_address,
                                          record_id))
    /\ \E resp \in UpsertResponses :
         LET ok == update_dns_record(resp) IN
         /\ success' = ok
         /\ IF Verifies(ok)
            THEN /\ session' = session
                 /\ ret' = ret
                 /\ lastEnd' = lastEnd
                 /\ pc' = "verify"
            ELSE /\ session' = session_exit(session)
                 /\ ret' = MainReturn(ip_address, ok)
                 /\ lastEnd' = now
                 /\ pc' = AfterMain
    /\ UNCHANGED <<mode, num_runs, caller, creds, ip_address, record_id,
                   verified, raised, invocations, runs_left, queue, now,
                   sleeps, rlHist, vaultIn, discovery, lookup, matching,
                   upToDate>>

\* main, lines 61-63: wait 5 seconds, resolve the name, leave the with block
Verify ==
    /\ pc = "verify"
    /\ now' = now + 5
    /\ reqs' = Append(reqs, [method |-> "RESOLVE", url |-> <<creds[3]>>,
                              expected |-> ip_address])
    /\ session' = session_exit(session)
    /\ \E answer \in DnsAnswers :
         LET v == verify_dns_update(ip_address, creds[3], answer) IN
         IF v.exc # ""
         THEN /\ raised' = v.exc
              /\ verified' = verified
              /\ ret' = ret
              /\ lastEnd' = lastEnd
              /\ pc' = "crashed"
         ELSE /\ raised' = raised
              /\ verified' = v.value
              /\ ret' = MainReturn(ip_address, success)
              /\ lastEnd' = now'
              /\ pc' = AfterMain
    /\ UNCHANGED <<mode, num_runs, caller, creds, ip_address, record_id,
                   success, invocations, runs_left, queue, sleeps, rlHist,
                   vaultIn, discovery, lookup, matching, upToDate>>

----------------------------------------------------------------------------
(* run, lines 84-104, and the loop of sched.scheduler.run *)

\* "if not mode and num_runs == 1" in place of "if not mode"
NoMode_AndSingle(m) == ~Truthy(m) /\ num_runs = 1

\* line 84: if not mode
NoMode(m) == ~Truthy(m)

\* run, lines 84-103: after the first call of main returned
AfterFirst ==
    /\ pc = "after_first"
    /\ IF NoMode(mode)
       THEN /\ pc' = "done"
            /\ UNCHANGED <<runs_left, rlHist, queue>>
       ELSE /\ runs_left' = num_runs - 1
            /\ rlHist' = Append(rlHist, runs_left')
            /\ queue' = schedule_next(queue, runs_left')
            /\ pc' = "sched"
    /\ UNCHANGED <<mode, num_runs, caller, creds, session, ip_address,
                   record_id, success, verified, ret, raised, reqs,
                   invocations, now, sleeps, vaultIn, discovery, lookup,
                   matching, upToDate, lastEnd>>

\* scheduler.run, line 104: the queue is empty, run returns
SchedStop ==
    /\ pc = "sched"
    /\ queue = <<>>
    /\ pc' = "done"
    /\ UNCHANGED <<mode, num_runs, caller, creds, session, ip_address,
                   record_id, success, verified, ret, raised, reqs,
                   invocations, runs_left, queue, now, sleeps, rlHist,
                   vaultIn, discovery, lookup, matching, upToDate, lastEnd>>

\* scheduler.run, line 104: the first event is in the future, sleep until it
SchedDelay ==
    /\ pc = "sched"
    /\ queue # <<>>
    /\ Head(queue) > now
    /\ sleeps' = Append(sleeps, Head(queue) - now)
    /\ now' = Head(queue)
    /\ UNCHANGED <<mode, num_runs, pc, caller, creds, session, ip_address,
                   record_id, success, verified, ret, raised, reqs,
                   invocations, runs_left, queue, rlHist, vaultIn, discovery,
                   lookup, matching, upToDate, lastEnd>>

\* scheduler.run, line 104: the first event is due, pop it and call
\* run_and_reschedule, which calls main (line 98)
SchedFire ==
    /\ pc = "sched"
    /\ queue # <<>>
    /\ Head(queue) <= now
    /\ invocations < CycleCap
    /\ queue' = Tail(queue)
    /\ caller' = "resched"
    /\ pc' = "main"
    /\ UNCHANGED <<mode, num_runs, creds, session, ip_address, record_id,
                   success, verified, ret, raised, reqs, invocations,
                   runs_left, now, sleeps, rlHist, vaultIn, discovery, lookup,
                   matching, upToDate, lastEnd>>

\* run_and_reschedule, lines 99-101, after its call of main returned; then
\* scheduler.run calls delayfunc(0)
AfterResched ==
    /\ pc = "after_resched"
    /\ IF Reschedules(runs_left)
       THEN /\ runs_left' = runs_left - 1
            /\ rlHist' = Append(rlHist, runs_left')
            /\ queue' = schedule_next(queue, runs_left')
       ELSE UNCHANGED <<runs_left, rlHist, queue>>
    /\ sleeps' = Append(sleeps, 0)
    /\ pc' = "sched"
    /\ UNCHANGED <<mode, num_runs, caller, creds, session, ip_address,
                   record_id, success, verified, ret, raised, reqs,
                   invocations, now, vaultIn, discovery, lookup, matching,
                   upToDate, lastEnd>>

Next ==
    \/ RunStart
    \/ MainEnter
    \/ GetMyIp
    \/ FindRecord
    \/ Upsert
    \/ Verify
    \/ AfterFirst
    \/ SchedStop
    \/ SchedDelay
    \/ SchedFire
    \/ AfterResched

Spec == Init /\ [][Next]_vars

----------------------------------------------------------------------------
(* Vocabulary of the properties *)

\* run has ended: it returned, or an exception left it
Terminated == pc \in {"done", "crashed"}

\* run got past the validation of the secrets and called main
Started == creds # <<>>

\* the current call of main has returned to its caller
CycleReturned == pc \in {"after_first", "after_resched"}

\* the write requests (create or update) among the current cycle's calls
Writes == { i \in 1..Len(reqs) : reqs[i].method \in {"POST", "PUT"} }

IsWait(d) == d > 0

\* the scheduler's waits for an event: its delayfunc calls other than the
\* delayfunc(0) that follows every action
InterCycleSleeps == SelectSeq(sleeps, IsWait)

RepeatModes == {"daily", "hourly", "min"}

\* the auth token is absent, a reference does not resolve, or a value is empty
CredentialFailure ==
    \/ ~Truthy(vaultIn.token)
    \/ \E ref \in DOMAIN vaultIn.vault : vaultIn.vault[ref] \in {Raises, ""}

----------------------------------------------------------------------------
(* C1 *)

\* C1: in a cycle whose record lookup ended in Failure (transport error,
\* unparsable body, status other than 200, or success = false) no create
\* (POST) and no update (PUT) request is issued, and the cycle does not go on
\* to the upsert or the verification.
C1_LookupFailureIssuesNoWrite ==
    lookup = "Failure" => (Writes = {} /\ pc \notin {"verify"})

----------------------------------------------------------------------------
(* C2 *)

\* C2: in a cycle whose IP discovery failed (transport error, status other
\* than 200, unparsable body, or clientIp absent or empty) the discovery GET
\* is the only external call: no lookup, no create or update, no resolution.
C2_FailedDiscoveryStopsCycle ==
    discovery = "Failed" =>
        /\ Len(reqs) = 1
        /\ reqs[1].url = CF_URL
        /\ pc \notin {"find", "update", "verify"}
        /\ lookup = None /\ success = None /\ verified = None

\* a cycle has returned after a failed discovery
C2_Witness ==
    /\ discovery = "Failed"
    /\ CycleReturned
    /\ ip_address = ""
    /\ Len(reqs) = 1

----------------------------------------------------------------------------
(* C3 *)

\* C3: for a repeat mode and a run count N >= 1, when run has ended main has
\* been called exactly N times, the scheduler has waited exactly N-1 times
\* between cycles, and nothing is left scheduled.
C3_ExactlyNRuns ==
    (Terminated /\ Started /\ mode \in RepeatModes /\ num_runs >= 1) =>
        /\ invocations = num_runs
        /\ Len(InterCycleSleeps) = num_runs - 1
        /\ queue = <<>>

----------------------------------------------------------------------------
(* C4 *)

\* the intervals as the specification names them
SpecInterval(m) ==
    IF m = "daily" THEN 86400
    ELSE IF m = "hourly" THEN 3600
    ELSE IF m = "minutely" THEN 60
    ELSE 0

\* the intervals under the names the code knows
CodeInterval(m) ==
    IF m = "daily" THEN 86400
    ELSE IF m = "hourly" THEN 3600
    ELSE IF m = "min" THEN 60
    ELSE 0

\* a scheduled call of main is about to start
ScheduledRunStarts == pc = "main" /\ caller = "resched"

\* C4 as stated: the interval is 86400 s for daily, 3600 s for hourly and
\* 60 s for minutely; an event is queued that far ahead, every scheduled
\* cycle of such a run starts right after a sleep of that length, and the
\* scheduler waits for no other length.
C4_IntervalsAsStated ==
    mode \in {"daily", "hourly", "minutely"} =>
        /\ (pc = "sched" /\ queue # <<>> /\ Head(queue) > now) =>
              Head(queue) - now = SpecInterval(mode)
        /\ \A i \in 1..Len(InterCycleSleeps) :
              InterCycleSleeps[i] = SpecInterval(mode)
        /\ ScheduledRunStarts =>
              (sleeps # <<>> /\ sleeps[Len(sleeps)] = SpecInterval(mode))

\* C4 amended: the interval is 86400 s for daily, 3600 s for hourly and 60 s
\* for min, the name the code gives the per-minute mode; an event is queued
\* that far ahead, every scheduled cycle of such a run starts right after a
\* sleep of that length, and the scheduler waits for no other length.
C4_IntervalsByCodeNames ==
    mode \in RepeatModes =>
        /\ (pc = "sched" /\ queue # <<>> /\ Head(queue) > now) =>
              Head(queue) - now = CodeInterval(mode)
        /\ \A i \in 1..Len(InterCycleSleeps) :
              InterCycleSleeps[i] = CodeInterval(mode)
        /\ ScheduledRunStarts =>
              (sleeps # <<>> /\ sleeps[Len(sleeps)] = CodeInterval(mode))

\* the third cycle of a per-minute run starts after its second 60 s sleep
C4_Witness ==
    /\ mode = "min"
    /\ ScheduledRunStarts
    /\ invocations = 2
    /\ InterCycleSleeps = <<60, 60>>

----------------------------------------------------------------------------
(* C5 *)

\* C5: without a repeat mode, whatever the run count, main is called at most
\* once, the scheduler is never entered (nothing is queued, no delayfunc
\* call, runs_left never computed), and when run has ended main has been
\* called exactly once.
C5_NoModeRunsOnce ==
    (Started /\ ~Truthy(mode)) =>
        /\ invocations <= 1
        /\ queue = <<>> /\ sleeps = <<>> /\ rlHist = <<>>
        /\ pc \notin {"sched", "after_resched"}
        /\ Terminated => invocations = 1

\* run returned after one cycle with no mode and a run count other than 1
C5_Witness ==
    /\ mode = None
    /\ num_runs \in {0, 3}
    /\ pc = "done"
    /\ invocations = 1

----------------------------------------------------------------------------
(* C6 *)

\* C6 (its safety part): with a repeat mode and num_runs = 0 run never ends:
\* it never returns and no exception leaves it.
C6_UnboundedNeverStops ==
    (Started /\ Truthy(mode) /\ num_runs = 0) => ~Terminated

----------------------------------------------------------------------------
(* C7 *)

\* the number of calls of main a run of mode m and count n makes, outcomes
\* aside (the unbounded runs never end)
ExpectedRuns(m, n) == IF Truthy(m) /\ n >= 1 THEN n ELSE 1

\* the values of runs_left its scheduling decisions see
ExpectedRunsLeft(m, n) ==
    IF ~Truthy(m) THEN <<>>
    ELSE IF n >= 1 THEN [i \in 1..n |-> n - i]
    ELSE <<n - 1>>

\* the waits between its cycles
ExpectedSleeps(m, n) ==
    IF Truthy(m) /\ n >= 1 /\ get_interval_seconds(m) > 0
    THEN [i \in 1..(n - 1) |-> get_interval_seconds(m)]
    ELSE <<>>

\* C7: the number of calls of main, the sequence of runs_left values and the
\* sleeps of a run depend on the mode and the run count alone: whatever the
\* cycles' outcomes, a bounded run ends with the same three.
C7_SchedulingIgnoresOutcomes ==
    (Terminated /\ Started /\ ~(Truthy(mode) /\ num_runs = 0)) =>
        /\ invocations = ExpectedRuns(mode, num_runs)
        /\ rlHist = ExpectedRunsLeft(mode, num_runs)
        /\ InterCycleSleeps = ExpectedSleeps(mode, num_runs)

----------------------------------------------------------------------------
(* C8 *)

\* C8 as stated: a cycle returns True to the scheduler exactly when its
\* discovery and its upsert both succeeded, and False otherwise.
C8_ReturnsOutcomeBoolean ==
    CycleReturned =>
        ret = PyBool(Truthy(ip_address) /\ success = PyTrue)

\* C8 amended: a cycle returns None to the scheduler on every path, whatever
\* the outcomes of its discovery, upsert and verification; its own success
\* flag is the upsert's result and the verification does not change it.
C8_ReturnsNone ==
    /\ CycleReturned => ret = None
    /\ verified # None => success = PyTrue

\* a cycle whose upsert succeeded and whose verification did not has returned
C8_Witness ==
    /\ CycleReturned
    /\ success = PyTrue
    /\ verified = PyFalse
    /\ ret = None

----------------------------------------------------------------------------
(* C9 *)

\* C9: no exception leaves a cycle: whatever the external steps do, main
\* returns to its caller.
C9_NoExceptionLeavesCycle == pc # "crashed" /\ raised = ""

----------------------------------------------------------------------------
(* C10 *)

\* C10: when the auth token is absent, a credential reference does not
\* resolve, or a resolved value is empty, run returns without calling main:
\* no cycle, no external call, no session, nothing scheduled, for every mode
\* and run count.
C10_BadCredentialsRunNothing ==
    (pc # "start" /\ CredentialFailure) =>
        /\ pc = "done"
        /\ invocations = 0
        /\ reqs = <<>> /\ session = None
        /\ queue = <<>> /\ sleeps = <<>> /\ rlHist = <<>>

\* run returned on an empty zone id, with a repeat mode and several runs asked
C10_Witness ==
    /\ pc = "done"
    /\ Truthy(vaultIn.token) /\ vaultIn.authOK
    /\ vaultIn.vault[CF_ZONE_ID_REF] = ""
    /\ vaultIn.vault[CF_API_KEY_REF] = "v" /\ vaultIn.vault[CF_HOST_REF] = "v"
    /\ mode = "hourly" /\ num_runs = 3
    /\ invocations = 0

----------------------------------------------------------------------------
(* More vocabulary *)

\* a call of main is between its entry and its exit
InCycle == pc \in {"get_ip", "find", "update", "verify"}

\* the current cycle has ended: main returned, or an exception left it
CycleEnded == CycleReturned \/ pc = "crashed"

\* the resolutions among the current cycle's calls
Resolves == { i \in 1..Len(reqs) : reqs[i].method = "RESOLVE" }

\* the URL of the zone's dns_records collection
CollectionUrl ==
    <<"https://api.cloudflare.com/client/v4", "zones", creds[2], "dns_records">>

\* the id the lookup is to return: that of the first matching record
Wanted == IF matching = <<>> THEN None ELSE Head(matching)

----------------------------------------------------------------------------
(* C11 *)

\* C11: within a cycle the name is resolved if and only if the cycle's upsert
\* returned True; the resolution comes right after the write request and the
\* IP it expects is the one the cycle discovered.
C11_VerifyIffUpsertSucceeded ==
    /\ \A i \in Resolves :
          /\ success = PyTrue
          /\ i = Len(reqs) /\ i - 1 \in Writes
          /\ discovery = "Ok"
          /\ reqs[i].expected = ip_address /\ ip_address \in IPs
    /\ pc = "verify" => (success = PyTrue /\ Resolves = {})
    /\ (success = PyTrue /\ pc # "verify") => Resolves # {}
    /\ success # PyTrue => (Resolves = {} /\ pc # "verify")

\* a cycle has verified its successful update and returned
C11_Witness ==
    /\ CycleReturned
    /\ success = PyTrue
    /\ verified = PyTrue
    /\ Resolves = {4}

----------------------------------------------------------------------------
(* C12 *)

\* C12: after a successful discovery, once the upsert step is taken, a lookup
\* that was NotFound has led to exactly one write, a POST to the collection
\* (no record id), and a lookup that returned id X to exactly one write, a PUT
\* to record X; the content sent is the discovered IP; before the upsert step
\* no write is issued.
C12_LookupRoutesTheWrite ==
    /\ pc \in {"get_ip", "find", "update"} => Writes = {}
    /\ (discovery = "Ok" /\ lookup \in {"NotFound", "Found"} /\ pc # "update") =>
          /\ Cardinality(Writes) = 1
          /\ \A i \in Writes :
                /\ reqs[i].data.content = ip_address
                /\ lookup = "NotFound" =>
                      (reqs[i].method = "POST" /\ reqs[i].url = CollectionUrl)
                /\ lookup = "Found" =>
                      (reqs[i].method = "PUT"
                       /\ reqs[i].url = CollectionUrl \o <<Wanted>>)

\* a cycle has updated the record Y its lookup returned
C12_Witness ==
    /\ CycleReturned
    /\ lookup = "Found"
    /\ Wanted = "Y"
    /\ Len(reqs) >= 3
    /\ reqs[3].method = "PUT"
    /\ reqs[3].url[5] = "Y"

----------------------------------------------------------------------------
(* C13 *)

\* C13: for every successful lookup response find_dns_record_id returns the
\* id of the first record, in provider order, whose type is A and whose name
\* is the configured name, and returns None exactly when the list is empty
\* or holds no such record.
C13_FindReturnsFirstMatch ==
    lookup \in {"Found", "NotFound"} =>
        /\ record_id = Wanted
        /\ record_id = None <=> matching = <<>>
        /\ lookup = "NotFound" <=> record_id = None

\* the lookup listed two matching records and returned the first one's id
C13_Witness ==
    /\ pc = "update"
    /\ matching = <<"Y", "X">>
    /\ record_id = "Y"

----------------------------------------------------------------------------
(* C14 *)

\* the payload the contract fixes for a name and an IP
SpecPayload(record_name, ip) ==
    [type |-> "A", name |-> record_name, content |-> ip, ttl |-> 1,
     proxied |-> FALSE]

\* C14: for every ip, update_dns_record without a record id sends a POST to
\* the zone's dns_records collection and with a record id X a PUT to the
\* endpoint of record X; both carry the payload {type A, name record_name,
\* content ip, ttl 1, proxied false}, so they differ in method and URL only;
\* the write a cycle issued is such a request for its discovered IP.
C14_UpsertRequestShape ==
    Started =>
        /\ \A ip \in IPs, rid \in RecordIds :
              LET c == UpsertRequest(creds[2], creds[3], ip, None)
                  u == UpsertRequest(creds[2], creds[3], ip, rid)
              IN  /\ c.method = "POST" /\ c.url = CollectionUrl
                  /\ u.method = "PUT" /\ u.url = CollectionUrl \o <<rid>>
                  /\ c.data = SpecPayload(creds[3], ip)
                  /\ u.data = c.data
                  /\ DOMAIN c = DOMAIN u
        /\ \A i \in Writes :
              /\ reqs[i].data = SpecPayload(creds[3], ip_address)
              /\ reqs[i].method = IF Truthy(record_id) THEN "PUT" ELSE "POST"

\* a cycle is about to verify the update it sent to record X
C14_Witness ==
    /\ pc = "verify"
    /\ record_id = "X"
    /\ reqs[3].method = "PUT"
    /\ reqs[3].url = CollectionUrl \o <<"X">>
    /\ reqs[3].data.content = ip_address

----------------------------------------------------------------------------
(* C15 *)

\* the kind of external call the i-th call of a cycle has to be
CallKindOk(i) ==
    IF i = 1 THEN reqs[i].method = "GET" /\ reqs[i].url = CF_URL
    ELSE IF i = 2 THEN reqs[i].method = "GET" /\ reqs[i].url = CollectionUrl
    ELSE IF i = 3 THEN reqs[i].method \in {"POST", "PUT"}
    ELSE reqs[i].method = "RESOLVE"

\* C15: at most one cycle is active: the scheduler holds at most one event
\* and none while a call of main is running; within a cycle the external
\* calls are, in this order and each at most once, discovery, lookup, upsert,
\* resolution, and a call is issued only when the one before it has returned
\* its result.
C15_OneCycleSequentialCalls ==
    /\ Len(queue) <= 1
    /\ InCycle => queue = <<>>
    /\ Len(reqs) <= 4
    /\ \A i \in 1..Len(reqs) : CallKindOk(i)
    /\ pc = "get_ip" => Len(reqs) = 0
    /\ pc = "find" => (Len(reqs) = 1 /\ ip_address \in IPs)
    /\ pc = "update" => (Len(reqs) = 2 /\ lookup # None)
    /\ pc = "verify" => (Len(reqs) = 3 /\ success = PyTrue)

\* a scheduled cycle has made its four calls and returned
C15_Witness ==
    /\ caller = "resched"
    /\ CycleReturned
    /\ Len(reqs) = 4
    /\ queue = <<>>

----------------------------------------------------------------------------
(* C16 *)

\* C16: scheduling is fixed-delay: no event is queued while a call of main is
\* running; a queued event is due one interval after the end of the cycle
\* before it, the verification wait of that cycle included; so a scheduled
\* cycle starts no earlier than one interval after the preceding cycle ended.
C16_FixedDelay ==
    /\ InCycle => queue = <<>>
    /\ queue # <<>> =>
          /\ pc = "sched"
          /\ Head(queue) = lastEnd + get_interval_seconds(mode)
    /\ ScheduledRunStarts => now >= lastEnd + get_interval_seconds(mode)
    /\ lastEnd <= now

\* a per-minute run whose first cycle took the 5 s of its verification
\* starts its second cycle at 65 s, not at 60 s
C16_Witness ==
    /\ mode = "min"
    /\ ScheduledRunStarts
    /\ invocations = 1
    /\ lastEnd = 5
    /\ now = 65

----------------------------------------------------------------------------
(* C17 *)

\* C17: the session is open exactly while a call of main is between its
\* entry and its exit: it is opened at the entry and is None after every
\* exit (the early return, the normal end, an exception leaving the cycle),
\* so it is None while the scheduler sleeps and after run has ended.
C17_SessionOpenExactlyInCycle ==
    /\ session \in {"open", None}
    /\ session = "open" <=> InCycle

\* an exception has left the cycle and the session is closed
C17_Witness ==
    /\ pc = "crashed"
    /\ raised = "UnicodeError"
    /\ session = None
    /\ Len(reqs) = 4

----------------------------------------------------------------------------
(* C18 *)

\* C18: with a repeat mode and N > 0 runs, runs_left is N-1 after the first
\* run, goes down by exactly one after each later run and is never negative;
\* at every scheduling decision the calls of main completed plus runs_left
\* make N.
C18_RunsLeftAccounting ==
    (Started /\ Truthy(mode) /\ num_runs > 0 /\ rlHist # <<>>) =>
        /\ rlHist[1] = num_runs - 1
        /\ \A i \in 1..(Len(rlHist) - 1) : rlHist[i + 1] = rlHist[i] - 1
        /\ runs_left = rlHist[Len(rlHist)]
        /\ runs_left >= 0
        /\ pc = "sched" => invocations + runs_left = num_runs
        /\ pc = "after_resched" => invocations + runs_left = num_runs + 1
        /\ pc = "done" => (runs_left = 0 /\ Len(rlHist) = num_runs)

\* a run of three has counted 2, 1, 0 and ended
C18_Witness ==
    /\ Truthy(mode)
    /\ num_runs = 3
    /\ rlHist = <<2, 1, 0>>
    /\ pc = "done"

----------------------------------------------------------------------------
(* C19 *)

\* C19: with a repeat mode the code does not know the interval is 0 and the
\* scheduler waits for no event, and the run count still rules: a run of
\* N > 0 ends with exactly N calls of main, a run of N = 0 never ends.
C19_UnknownModeRunsWithoutDelay ==
    (Started /\ mode = "minutely") =>
        /\ get_interval_seconds(mode) = 0
        /\ InterCycleSleeps = <<>>
        /\ (Terminated /\ num_runs > 0) => invocations = num_runs
        /\ num_runs = 0 => ~Terminated

----------------------------------------------------------------------------
(* C20 *)

\* C20: a cycle starts with none of the previous cycle's values; every cycle
\* that ended made the discovery call, every cycle whose discovery succeeded
\* made the lookup call and, once past the upsert step, exactly one write,
\* also when the record found already holds the discovered IP.
C20_EveryCycleWrites ==
    /\ pc = "get_ip" =>
          /\ ip_address = None /\ record_id = None
          /\ success = None /\ verified = None
          /\ reqs = <<>>
    /\ CycleEnded => (Len(reqs) >= 1 /\ reqs[1].url = CF_URL)
    /\ (discovery = "Ok" /\ pc # "find") =>
          (Len(reqs) >= 2 /\ reqs[2].url = CollectionUrl)
    /\ (discovery = "Ok" /\ pc \notin {"find", "update"}) =>
          Cardinality(Writes) = 1

\* a later cycle has rewritten a record that already held the discovered IP
C20_Witness ==
    /\ invocations = 2
    /\ CycleReturned
    /\ upToDate = PyTrue
    /\ Writes = {3}
    /\ reqs[3].method = "PUT"

----------------------------------------------------------------------------
(* C21 *)

\* C21: with a repeat mode and a negative run count N, run calls main exactly
\* once, the immediate first call: its one scheduling decision sees
\* runs_left = N - 1 and enters no event, so the scheduler never waits, never
\* calls run_and_reschedule, and run ends after that one call.
C21_NegativeCountRunsOnce ==
    (Started /\ Truthy(mode) /\ num_runs < 0) =>
        /\ invocations = (IF pc = "main" THEN 0 ELSE 1)
        /\ caller = "first"
        /\ queue = <<>>
        /\ sleeps = <<>>
        /\ pc # "after_resched"
        /\ rlHist \in {<<>>, <<num_runs - 1>>}
        /\ pc \in {"sched", "done"} =>
              (rlHist = <<num_runs - 1>> /\ runs_left = num_runs - 1)

\* a run of count -2 in a repeat mode has returned after its one call of main
C21_Witness ==
    /\ mode \in RepeatModes
    /\ num_runs = -2
    /\ pc = "done"
    /\ raised = ""
    /\ invocations = 1
    /\ rlHist = <<-3>>

====
